---- MODULE Spec2Model ----
(***************************************************************************)
(* The schema-driven form engine of src/components/dynamic-form.tsx:       *)
(* type unwrapping, default value synthesis, initial-value normalization,  *)
(* the reset suppression flag with its deferred clear, the per-type edit   *)
(* handlers and the validated submit.                                      *)
(*                                                                         *)
(* JavaScript values are records [t, v]: t is the kind of the value and v  *)
(* its payload.  A string is a sequence of one-character strings, so that  *)
(* startsWith, slice, trim, split, Number, parseInt and JSON.parse are     *)
(* computed character by character.                                        *)
(***************************************************************************)
EXTENDS Integers, Sequences, FiniteSets, TLC

(***************************************************************************)
(* JavaScript values                                                       *)
(***************************************************************************)
Undefined == [t |-> "undefined", v |-> 0]
Null == [t |-> "null", v |-> 0]
NaN == [t |-> "NaN", v |-> 0]
Bool(b) == [t |-> "boolean", v |-> b]
Num(n) == [t |-> "number", v |-> n]
Str(s) == [t |-> "string", v |-> s]
Arr(a) == [t |-> "array", v |-> a]
Obj(a) == [t |-> "object", v |-> a]

EmptyStr == Str(<<>>)

IsNullish(x) == x.t = "null" \/ x.t = "undefined"

\* Array.isArray(value)
IsArray(x) == x.t = "array"

\* !!value
Truthy(x) ==
  CASE x.t = "undefined" -> FALSE
    [] x.t = "null" -> FALSE
    [] x.t = "NaN" -> FALSE
    [] x.t = "boolean" -> x.v
    [] x.t = "number" -> x.v # 0
    [] x.t = "string" -> x.v # <<>>
    [] OTHER -> TRUE

(***************************************************************************)
(* Strings, character by character                                         *)
(***************************************************************************)
Digits == <<"0", "1", "2", "3", "4", "5", "6", "7", "8", "9">>

IsDigit(c) == \E i \in 1..10 : Digits[i] = c

DigitVal(c) == (CHOOSE i \in 1..10 : Digits[i] = c) - 1

\* White space as String.prototype.trim and the number grammar see it.
IsSpace(c) == c = " "

RECURSIVE TrimStart(_)
TrimStart(s) ==
  IF s # <<>> /\ IsSpace(Head(s)) THEN TrimStart(Tail(s)) ELSE s

RECURSIVE TrimEnd(_)
TrimEnd(s) ==
  IF s # <<>> /\ IsSpace(s[Len(s)]) THEN TrimEnd(SubSeq(s, 1, Len(s) - 1)) ELSE s

\* String.prototype.trim
Trim(s) == TrimEnd(TrimStart(s))

\* s.startsWith(c) and s.endsWith(c), c one character
StartsWith(s, c) == s # <<>> /\ Head(s) = c

EndsWith(s, c) == s # <<>> /\ s[Len(s)] = c

\* s.slice(1, -1)
SliceInner(s) == SubSeq(s, 2, Len(s) - 1)

\* s.split(sep): the pieces between the separators, at least one piece.
RECURSIVE SplitFrom(_, _, _)
SplitFrom(s, sep, cur) ==
  IF s = <<>> THEN <<cur>>
  ELSE IF Head(s) = sep THEN <<cur>> \o SplitFrom(Tail(s), sep, <<>>)
  ELSE SplitFrom(Tail(s), sep, Append(cur, Head(s)))

Split(s, sep) == SplitFrom(s, sep, <<>>)

\* the decimal digits of a natural number
RECURSIVE NatToStr(_)
NatToStr(n) ==
  IF n < 10 THEN <<Digits[n + 1]>> ELSE Append(NatToStr(n \div 10), Digits[(n % 10) + 1])

IntToStr(n) == IF n < 0 THEN <<"-">> \o NatToStr(-n) ELSE NatToStr(n)

RECURSIVE DigitsToNat(_, _)
DigitsToNat(s, acc) ==
  IF s = <<>> THEN acc ELSE DigitsToNat(Tail(s), acc * 10 + DigitVal(Head(s)))

AllDigits(s) == s # <<>> /\ \A i \in 1..Len(s) : IsDigit(s[i])

\* ToNumber of a string: white space trimmed, empty is 0, an optionally
\* signed run of decimal digits is its value, anything else is NaN.
StringToNumber(s) ==
  LET u == Trim(s)
      signed == u # <<>> /\ (Head(u) = "-" \/ Head(u) = "+")
      body == IF signed THEN Tail(u) ELSE u
  IN IF u = <<>> THEN Num(0)
     ELSE IF AllDigits(body)
       THEN Num(IF Head(u) = "-" THEN -DigitsToNat(body, 0) ELSE DigitsToNat(body, 0))
     ELSE NaN

\* String(value); an array is its elements joined by ",", null and
\* undefined elements giving the empty string.
RECURSIVE ToStr(_)
RECURSIVE JoinArr(_)
ToStr(x) ==
  CASE x.t = "undefined" -> <<"u", "n", "d", "e", "f", "i", "n", "e", "d">>
    [] x.t = "null" -> <<"n", "u", "l", "l">>
    [] x.t = "NaN" -> <<"N", "a", "N">>
    [] x.t = "boolean" ->
         IF x.v THEN <<"t", "r", "u", "e">> ELSE <<"f", "a", "l", "s", "e">>
    [] x.t = "number" -> IntToStr(x.v)
    [] x.t = "string" -> x.v
    [] x.t = "array" -> JoinArr(x.v)
    [] OTHER -> <<"[", "o", "b", "j", "e", "c", "t", " ", "O", "b", "j", "e", "c", "t", "]">>

JoinArr(a) ==
  IF a = <<>> THEN <<>>
  ELSE LET h == IF IsNullish(Head(a)) THEN <<>> ELSE ToStr(Head(a))
       IN IF Len(a) = 1 THEN h ELSE h \o <<",">> \o JoinArr(Tail(a))

\* Number(value)
ToNumber(x) ==
  CASE x.t = "undefined" -> NaN
    [] x.t = "null" -> Num(0)
    [] x.t = "NaN" -> NaN
    [] x.t = "boolean" -> Num(IF x.v THEN 1 ELSE 0)
    [] x.t = "number" -> x
    [] x.t = "string" -> StringToNumber(x.v)
    [] x.t = "array" -> StringToNumber(ToStr(x))
    [] OTHER -> NaN

\* isNaN(num), num a number
IsNaN(x) == x.t = "NaN"

\* parseInt(value, 10): leading white space skipped, an optional sign, then
\* the longest run of decimal digits; NaN when there is none.
RECURSIVE DigitPrefix(_)
DigitPrefix(s) ==
  IF s # <<>> /\ IsDigit(Head(s)) THEN <<Head(s)>> \o DigitPrefix(Tail(s)) ELSE <<>>

ParseInt(s) ==
  LET u == TrimStart(s)
      signed == u # <<>> /\ (Head(u) = "-" \/ Head(u) = "+")
      body == DigitPrefix(IF signed THEN Tail(u) ELSE u)
  IN IF body = <<>> THEN NaN
     ELSE Num(IF Head(u) = "-" THEN -DigitsToNat(body, 0) ELSE DigitsToNat(body, 0))

(***************************************************************************)
(* Zod field types.  A field type is the sequence of its layers, outermost *)
(* first: zero or more wrapper layers and then the base type.  The inner   *)
(* type of a wrapper (_def.innerType, or _def.schema of a ZodEffects) is   *)
(* the rest of the sequence.  defaultValue is what _def.defaultValue()     *)
(* returns, values the options of a ZodEnum, min the minimum length of a   *)
(* ZodString.                                                              *)
(***************************************************************************)
Layer(tn, dv, vals, mn) == [typeName |-> tn, defaultValue |-> dv, values |-> vals, min |-> mn]

ZodString == <<Layer("ZodString", Undefined, <<>>, 0)>>
ZodStringMin(n) == <<Layer("ZodString", Undefined, <<>>, n)>>
ZodNumber == <<Layer("ZodNumber", Undefined, <<>>, 0)>>
ZodBoolean == <<Layer("ZodBoolean", Undefined, <<>>, 0)>>
ZodEnum(vals) == <<Layer("ZodEnum", Undefined, vals, 0)>>
ZodArray == <<Layer("ZodArray", Undefined, <<>>, 0)>>
ZodAny == <<Layer("ZodAny", Undefined, <<>>, 0)>>
ZodOptional(T) == <<Layer("ZodOptional", Undefined, <<>>, 0)>> \o T
ZodNullable(T) == <<Layer("ZodNullable", Undefined, <<>>, 0)>> \o T
ZodEffects(T) == <<Layer("ZodEffects", Undefined, <<>>, 0)>> \o T
ZodDefault(T, d) == <<Layer("ZodDefault", d, <<>>, 0)>> \o T

TypeName(fieldSchema) == Head(fieldSchema).typeName

\* What a schema may hold in the place of a field type without being one:
\* the value undefined (typeof fieldSchema === "undefined"), and an object
\* whose _def is no object.  Each is written as one layer whose typeName
\* names the case; under wrappers it is an innerType that is no Zod schema.
AbsentField == <<Layer("(undefined)", Undefined, <<>>, 0)>>
MalformedField == <<Layer("(invalid _def)", Undefined, <<>>, 0)>>

WrapperNames == {"ZodOptional", "ZodDefault", "ZodNullable", "ZodEffects"}

\* an unwrapping that stops at a ZodEffects layer
RECURSIVE unwrapZodTypeKeepingEffects(_)
unwrapZodTypeKeepingEffects(fieldSchema) ==
  IF TypeName(fieldSchema) \in WrapperNames \ {"ZodEffects"}
    THEN unwrapZodTypeKeepingEffects(Tail(fieldSchema))
    ELSE fieldSchema

\* unwrapZodType: strip the wrapper layers until a non-wrapper is reached.
RECURSIVE unwrapZodType(_)
unwrapZodType(fieldSchema) ==
  IF TypeName(fieldSchema) \in WrapperNames
    THEN unwrapZodType(Tail(fieldSchema))
    ELSE fieldSchema

\* a guard that lets every descriptor through
UnwrapThrowsNever(fieldSchema) == FALSE

\* whether unwrapZodType throws: the guard at its head rejects a schema that
\* is falsy or whose _def is no object, and the loop reads _def of whatever
\* innerType it reaches
UnwrapThrows(fieldSchema) ==
  TypeName(unwrapZodType(fieldSchema)) \in {TypeName(AbsentField), TypeName(MalformedField)}

\* (baseType._def as any).values || []
enumValuesOf(baseType) == Head(baseType).values

(***************************************************************************)
(* Objects (value sets, initialValues) are functions from keys to values.  *)
(***************************************************************************)
EmptyObject == [k \in {} |-> Undefined]

\* acc[key] = v
SetKey(acc, key, v) == [k \in (DOMAIN acc) \cup {key} |-> IF k = key THEN v ELSE acc[k]]

(***************************************************************************)
(* Default value synthesis (the reduce that builds defaultValues).         *)
(***************************************************************************)
\* the switch on the base type's name
TypeFallback(baseType) ==
  CASE TypeName(baseType) = "ZodString" -> EmptyStr
    [] TypeName(baseType) = "ZodBoolean" -> Bool(FALSE)
    [] TypeName(baseType) = "ZodEnum" ->
         IF Len(enumValuesOf(baseType)) > 0 THEN enumValuesOf(baseType)[1] ELSE EmptyStr
    [] TypeName(baseType) = "ZodNumber" -> Num(0)
    [] TypeName(baseType) = "ZodArray" -> Arr(<<>>)
    [] OTHER -> Undefined

\* whether the reduce throws at the field: schema.shape[key] is undefined,
\* its _def cannot be read, or unwrapZodType throws; a ZodDefault returns
\* its default before anything is unwrapped
DefaultValueThrows(originalFieldSchema) ==
  \/ originalFieldSchema \in {AbsentField, MalformedField}
  \/ TypeName(originalFieldSchema) # "ZodDefault" /\ UnwrapThrows(originalFieldSchema)

\* one field: the declared default when the field schema itself is a
\* ZodDefault, else the fallback of the unwrapped base type
DefaultValueOf(originalFieldSchema) ==
  IF TypeName(originalFieldSchema) = "ZodDefault"
    THEN Head(originalFieldSchema).defaultValue
    ELSE TypeFallback(unwrapZodType(originalFieldSchema))

\* a reduce step that leaves out a field without a synthesizable default
DefaultValuesStepSkippingUndefined(acc, shape, key) ==
  IF DefaultValueOf(shape[key]) = Undefined
    THEN acc
    ELSE SetKey(acc, key, DefaultValueOf(shape[key]))

\* one step of the reduce
DefaultValuesStep(acc, shape, key) == SetKey(acc, key, DefaultValueOf(shape[key]))

RECURSIVE DefaultValuesReduce(_, _, _)
DefaultValuesReduce(keys, shape, acc) ==
  IF keys = <<>> THEN acc
  ELSE DefaultValuesReduce(Tail(keys), shape, DefaultValuesStep(acc, shape, Head(keys)))

\* Object.keys(schema.shape).reduce(..., {})
defaultValues(sch) == DefaultValuesReduce(sch.keys, sch.shape, EmptyObject)

\* whether the reduce throws
defaultValuesThrows(sch) == \E k \in DOMAIN sch.shape : DefaultValueThrows(sch.shape[k])

\* whether the first render throws: renderField unwraps every field type
renderFieldThrows(sch) == \E k \in DOMAIN sch.shape : UnwrapThrows(sch.shape[k])

\* whether the first render of the component throws, so that no form exists
ConstructionThrows(sch) == defaultValuesThrows(sch) \/ renderFieldThrows(sch)

(***************************************************************************)
(* Initial-value normalization (the reduce that builds                     *)
(* processedInitialValues).                                                *)
(***************************************************************************)
\* enumValues.includes(value)
Includes(arr, x) == \E i \in 1..Len(arr) : arr[i] = x

\* enumValues[0] || ""
FirstOrEmpty(arr) == IF arr # <<>> /\ Truthy(arr[1]) THEN arr[1] ELSE EmptyStr

\* the split without the trim of the items
SplitNoTrim(innerContent) ==
  LET parts == Split(innerContent, ",")
  IN [i \in 1..Len(parts) |-> Str(parts[i])]

\* innerContent.split(",").map((item) => item.trim())
SplitTrim(innerContent) ==
  LET parts == Split(innerContent, ",")
  IN [i \in 1..Len(parts) |-> Str(Trim(parts[i]))]

\* a ZodArray branch that keeps null and undefined as null
NormalizeArrayKeepingNull(value) ==
  IF IsArray(value) THEN value
  ELSE IF IsNullish(value) THEN Null
  ELSE IF value.t = "string" /\ StartsWith(value.v, "{") /\ EndsWith(value.v, "}")
    THEN LET innerContent == SliceInner(value.v)
         IN IF Trim(innerContent) = <<>> THEN Arr(<<>>) ELSE Arr(SplitTrim(innerContent))
  ELSE Arr(<<>>)

\* the ZodArray branch
NormalizeArray(value) ==
  IF IsArray(value) THEN value
  ELSE IF IsNullish(value) THEN Arr(<<>>)
  ELSE IF value.t = "string" /\ StartsWith(value.v, "{") /\ EndsWith(value.v, "}")
    THEN LET innerContent == SliceInner(value.v)
         IN IF Trim(innerContent) = <<>> THEN Arr(<<>>) ELSE Arr(SplitTrim(innerContent))
  ELSE Arr(<<>>)

\* a ZodEnum branch without the test for a declared option
NormalizeEnumKeepingUnknown(enumValues, value) ==
  IF IsNullish(value) THEN FirstOrEmpty(enumValues) ELSE Str(ToStr(value))

\* the ZodEnum branch
NormalizeEnum(enumValues, value) ==
  IF IsNullish(value) \/ ~Includes(enumValues, value)
    THEN FirstOrEmpty(enumValues)
    ELSE Str(ToStr(value))

\* a ZodNumber branch without the isNaN test
NormalizeNumberKeepingNaN(value) == ToNumber(value)

\* the ZodNumber branch
NormalizeNumber(value) ==
  LET num == ToNumber(value) IN IF IsNaN(num) THEN Num(0) ELSE num

\* a coercion that stores the value of a boolean field as it is given
NormalizeValueKeepingBoolean(fieldDefFromSchema, value) ==
  LET baseFieldType == unwrapZodType(fieldDefFromSchema)
      tn == TypeName(baseFieldType)
  IN CASE tn = "ZodString" -> IF IsNullish(value) THEN EmptyStr ELSE Str(ToStr(value))
       [] tn = "ZodEnum" -> NormalizeEnum(enumValuesOf(baseFieldType), value)
       [] tn = "ZodNumber" -> NormalizeNumber(value)
       [] tn = "ZodArray" -> NormalizeArray(value)
       [] OTHER -> value

\* a coercion that stores !value for a boolean field
NormalizeValueNegatingBoolean(fieldDefFromSchema, value) ==
  LET baseFieldType == unwrapZodType(fieldDefFromSchema)
      tn == TypeName(baseFieldType)
  IN CASE tn = "ZodBoolean" -> Bool(~Truthy(value))
       [] tn = "ZodString" -> IF IsNullish(value) THEN EmptyStr ELSE Str(ToStr(value))
       [] tn = "ZodEnum" -> NormalizeEnum(enumValuesOf(baseFieldType), value)
       [] tn = "ZodNumber" -> NormalizeNumber(value)
       [] tn = "ZodArray" -> NormalizeArray(value)
       [] OTHER -> value

\* the coercion of one field, by the name of its unwrapped base type
NormalizeValue(fieldDefFromSchema, value) ==
  LET baseFieldType == unwrapZodType(fieldDefFromSchema)
      tn == TypeName(baseFieldType)
  IN CASE tn = "ZodBoolean" -> Bool(Truthy(value))
       [] tn = "ZodString" -> IF IsNullish(value) THEN EmptyStr ELSE Str(ToStr(value))
       [] tn = "ZodEnum" -> NormalizeEnum(enumValuesOf(baseFieldType), value)
       [] tn = "ZodNumber" -> NormalizeNumber(value)
       [] tn = "ZodArray" -> NormalizeArray(value)
       [] OTHER -> value

\* initialValues.hasOwnProperty(key) ? initialValues[key] : undefined
OwnOrUndefined(obj, key) == IF key \in DOMAIN obj THEN obj[key] ELSE Undefined

\* one step of the reduce
ProcessStep(acc, shape, obj, key) ==
  SetKey(acc, key, NormalizeValue(shape[key], OwnOrUndefined(obj, key)))

RECURSIVE ProcessReduce(_, _, _, _)
ProcessReduce(keys, shape, obj, acc) ==
  IF keys = <<>> THEN acc
  ELSE ProcessReduce(Tail(keys), shape, obj, ProcessStep(acc, shape, obj, Head(keys)))

\* a reduce that starts from initialValues instead of the empty object
processedInitialValuesOverInput(sch, obj) == ProcessReduce(sch.keys, sch.shape, obj, obj)

\* schemaKeys.reduce(..., {})
processedInitialValues(sch, obj) == ProcessReduce(sch.keys, sch.shape, obj, EmptyObject)

(***************************************************************************)
(* JSON.parse and JSON.stringify over the characters the model draws:      *)
(* arrays, double-quoted strings without escapes, integers, the literals   *)
(* true, false and null, and the empty object.  No text of the model holds *)
(* a ":", a ".", a backslash or an exponent, so these are all the JSON     *)
(* texts it can form.                                                      *)
(***************************************************************************)
RECURSIVE SkipWs(_, _)
SkipWs(s, i) == IF i <= Len(s) /\ IsSpace(s[i]) THEN SkipWs(s, i + 1) ELSE i

ParseFail == [ok |-> FALSE, val |-> Undefined, next |-> 0]

ParseOk(x, n) == [ok |-> TRUE, val |-> x, next |-> n]

\* whether the characters of lit stand in s from position i
MatchAt(s, i, lit) ==
  i + Len(lit) - 1 <= Len(s) /\ \A k \in 1..Len(lit) : s[i + k - 1] = lit[k]

\* the position of the next double quote at or after i, or 0
RECURSIVE QuoteFrom(_, _)
QuoteFrom(s, i) ==
  IF i > Len(s) THEN 0 ELSE IF s[i] = "\"" THEN i ELSE QuoteFrom(s, i + 1)

\* the end of the run of digits that starts at i
RECURSIVE DigitsEnd(_, _)
DigitsEnd(s, i) == IF i <= Len(s) /\ IsDigit(s[i]) THEN DigitsEnd(s, i + 1) ELSE i

\* a JSON number at i: an optional "-", then 0 or a digit run without a leading 0
ParseJsonNumber(s, i) ==
  LET neg == s[i] = "-"
      d == IF neg THEN i + 1 ELSE i
      e == IF d <= Len(s) /\ s[d] = "0" THEN d + 1 ELSE DigitsEnd(s, d)
  IN IF e = d THEN ParseFail
     ELSE ParseOk(Num(IF neg THEN -DigitsToNat(SubSeq(s, d, e - 1), 0)
                            ELSE DigitsToNat(SubSeq(s, d, e - 1), 0)), e)

RECURSIVE ParseJsonValue(_, _)
RECURSIVE ParseJsonElements(_, _, _)
\* the JSON value that starts at position i of s (white space already skipped)
ParseJsonValue(s, i) ==
  IF i > Len(s) THEN ParseFail
  ELSE IF s[i] = "[" THEN
    LET j == SkipWs(s, i + 1)
    IN IF j <= Len(s) /\ s[j] = "]" THEN ParseOk(Arr(<<>>), j + 1)
       ELSE ParseJsonElements(s, j, <<>>)
  ELSE IF s[i] = "\"" THEN
    LET q == QuoteFrom(s, i + 1)
    IN IF q = 0 THEN ParseFail ELSE ParseOk(Str(SubSeq(s, i + 1, q - 1)), q + 1)
  ELSE IF s[i] = "{" THEN
    LET j == SkipWs(s, i + 1)
    IN IF j <= Len(s) /\ s[j] = "}" THEN ParseOk(Obj(<<>>), j + 1) ELSE ParseFail
  ELSE IF s[i] = "-" \/ IsDigit(s[i]) THEN ParseJsonNumber(s, i)
  ELSE IF MatchAt(s, i, <<"t", "r", "u", "e">>) THEN ParseOk(Bool(TRUE), i + 4)
  ELSE IF MatchAt(s, i, <<"f", "a", "l", "s", "e">>) THEN ParseOk(Bool(FALSE), i + 5)
  ELSE IF MatchAt(s, i, <<"n", "u", "l", "l">>) THEN ParseOk(Null, i + 4)
  ELSE ParseFail

\* the elements of an array from position i, acc the elements read so far
ParseJsonElements(s, i, acc) ==
  LET r == ParseJsonValue(s, i)
      k == SkipWs(s, r.next)
  IN IF ~r.ok \/ k > Len(s) THEN ParseFail
     ELSE IF s[k] = "]" THEN ParseOk(Arr(Append(acc, r.val)), k + 1)
     ELSE IF s[k] = "," THEN ParseJsonElements(s, SkipWs(s, k + 1), Append(acc, r.val))
     ELSE ParseFail

\* JSON.parse(value): ok is FALSE where JSON.parse throws
JsonParse(s) ==
  LET r == ParseJsonValue(s, SkipWs(s, 1))
  IN IF r.ok /\ SkipWs(s, r.next) = Len(s) + 1 THEN r ELSE ParseFail

\* JSON.stringify(value)
RECURSIVE JsonStringify(_)
RECURSIVE JsonStringifyItems(_)
JsonStringify(x) ==
  CASE x.t = "string" -> <<"\"">> \o x.v \o <<"\"">>
    [] x.t = "number" -> IntToStr(x.v)
    [] x.t = "boolean" -> ToStr(x)
    [] x.t = "array" -> <<"[">> \o JsonStringifyItems(x.v) \o <<"]">>
    [] x.t = "object" -> <<"{", "}">>
    [] OTHER -> <<"n", "u", "l", "l">>

JsonStringifyItems(a) ==
  IF a = <<>> THEN <<>>
  ELSE IF Len(a) = 1 THEN JsonStringify(Head(a))
  ELSE JsonStringify(Head(a)) \o <<",">> \o JsonStringifyItems(Tail(a))

(***************************************************************************)
(* The edit handlers of renderField: what each passes to field.onChange.   *)
(***************************************************************************)
\* an onChange that stores the empty sequence for blank text
ArrayOnChangeBlankIsEmpty(value) ==
  IF Trim(value) = <<>> THEN Arr(<<>>)
  ELSE LET parsed == JsonParse(value)
       IN IF parsed.ok /\ IsArray(parsed.val) THEN parsed.val ELSE Str(value)

\* ZodArray: onChange of the text input
ArrayOnChange(value) ==
  IF Trim(value) = <<>> THEN Null
  ELSE LET parsed == JsonParse(value)
       IN IF parsed.ok /\ IsArray(parsed.val) THEN parsed.val ELSE Str(value)

\* ZodArray: the value attribute of the text input
ArrayInputValue(fieldValue) ==
  IF IsNullish(fieldValue) THEN <<>>
  ELSE IF IsArray(fieldValue) THEN JsonStringify(fieldValue)
  ELSE IF Truthy(fieldValue) THEN ToStr(fieldValue) ELSE <<>>

\* an onChange that stores 0 for text that is no integer
NumberOnChangeZero(value) ==
  LET num == ParseInt(value) IN IF IsNaN(num) THEN Num(0) ELSE num

\* ZodNumber: onChange of the number input
NumberOnChange(value) ==
  LET num == ParseInt(value) IN IF IsNaN(num) THEN Undefined ELSE num

\* ZodBoolean: the Switch shows !!field.value and reports the opposite
SwitchOnCheckedChange(fieldValue) == Bool(~Truthy(fieldValue))

(***************************************************************************)
(* Validation by the schema, as zodResolver(schema) runs it: the parse of  *)
(* one value by one field type, layer by layer.  A ZodEffects layer stands *)
(* for a refinement that accepts what its inner type accepts; an array is  *)
(* an array of strings.                                                    *)
(***************************************************************************)
RECURSIVE ZodParse(_, _)
ZodParse(fieldSchema, x) ==
  LET tn == TypeName(fieldSchema)
      def == Head(fieldSchema)
      good == [ok |-> TRUE, out |-> x]
      bad == [ok |-> FALSE, out |-> x]
  IN CASE tn = "ZodOptional" ->
            IF x.t = "undefined" THEN good ELSE ZodParse(Tail(fieldSchema), x)
       [] tn = "ZodNullable" ->
            IF x.t = "null" THEN good ELSE ZodParse(Tail(fieldSchema), x)
       [] tn = "ZodDefault" ->
            ZodParse(Tail(fieldSchema), IF x.t = "undefined" THEN def.defaultValue ELSE x)
       [] tn = "ZodEffects" -> ZodParse(Tail(fieldSchema), x)
       [] tn = "ZodString" -> IF x.t = "string" /\ Len(x.v) >= def.min THEN good ELSE bad
       [] tn = "ZodNumber" -> IF x.t = "number" THEN good ELSE bad
       [] tn = "ZodBoolean" -> IF x.t = "boolean" THEN good ELSE bad
       [] tn = "ZodEnum" -> IF x.t = "string" /\ Includes(def.values, x) THEN good ELSE bad
       [] tn = "ZodArray" ->
            IF IsArray(x) /\ \A i \in 1..Len(x.v) : x.v[i].t = "string" THEN good ELSE bad
       [] OTHER -> good

\* the fields whose value the schema rejects (the keys of the resolver's errors)
InvalidFields(sch, vals) ==
  {k \in DOMAIN sch.shape : ~ZodParse(sch.shape[k], OwnOrUndefined(vals, k)).ok}

\* a resolver that hands on the values as they are stored
ParsedDataAsStored(sch, vals) == vals

\* the parsed data the resolver returns for a valid value set
ParsedData(sch, vals) ==
  [k \in DOMAIN sch.shape |-> ZodParse(sch.shape[k], OwnOrUndefined(vals, k)).out]

(***************************************************************************)
(* The form: one DynamicForm instance.                                     *)
(*   schema            the schema prop, fixed for the instance             *)
(*   values            the form's value set (react-hook-form's state)      *)
(*   isInitializingRef the suppression flag                                *)
(*   lastEffect        what the last run of the effect did: "none" before  *)
(*                     the first run, "reset" or "absent"                  *)
(*   timers            the deferred flag-clears (setTimeout 0) still to    *)
(*                     run; they run in the order they were scheduled      *)
(*   pending           the enum fields whose Select has still to report    *)
(*                     the value change the latest reset gave it           *)
(*   errors            the fields that carry a validation message          *)
(*   isSubmitted       whether a submit was attempted since the last reset *)
(*   onSubmitCount     how often the caller's onSubmit was invoked         *)
(*   lastOp            the last step: its name, field, input, and whether  *)
(*                     it reached field.onChange / onSubmit; "error" when  *)
(*                     the first render threw                              *)
(*   isLoading         the isLoading prop the caller passes                *)
(*   inFlight          the invocations of onSubmit whose work the caller   *)
(*                     has not finished                                    *)
(***************************************************************************)
VARIABLES schema, values, isInitializingRef, lastEffect, timers, pending,
          errors, isSubmitted, onSubmitCount, lastOp, isLoading, inFlight

vars == <<schema, values, isInitializingRef, lastEffect, timers, pending,
          errors, isSubmitted, onSubmitCount, lastOp, isLoading, inFlight>>

\* deferred flag-clears that may be pending at once
MaxPendingTimers == 2

\* invocations of onSubmit in one run
MaxSubmits == 2

Op(name, field, input, reached) ==
  [op |-> name, field |-> field, input |-> input, propagated |-> reached]

\* the fields renderField renders with the given widget
FieldsOfType(sch, tn) ==
  {k \in DOMAIN sch.shape : TypeName(unwrapZodType(sch.shape[k])) = tn}

\* the state after the first render: useRef(true), useForm({defaultValues}),
\* isLoading = false; when the render throws there are no values and no form
InitWith(Schemas) ==
  /\ schema \in Schemas
  /\ IF ConstructionThrows(schema)
       THEN values = EmptyObject /\ lastOp = Op("error", "", EmptyObject, FALSE)
       ELSE values = defaultValues(schema) /\ lastOp = Op("render", "", EmptyObject, FALSE)
  /\ isInitializingRef = TRUE
  /\ lastEffect = "none"
  /\ timers = 0
  /\ pending = {}
  /\ errors = {}
  /\ isSubmitted = FALSE
  /\ onSubmitCount = 0
  /\ isLoading = FALSE
  /\ inFlight = 0

\* The effect, initialValues given: the flag is set, the form is reset to the
\* normalized values and the flag-clear is deferred.  The Selects whose value
\* the reset changed report it later (pending).  The effect of a commit runs
\* after the effects of the children of that commit, so the Selects of an
\* earlier reset have reported by then.
EffectReset(obj) ==
  /\ lastOp.op # "error"
  /\ pending = {}
  /\ timers < MaxPendingTimers
  /\ isInitializingRef' = TRUE
  /\ values' = processedInitialValues(schema, obj)
  /\ errors' = {}
  /\ isSubmitted' = FALSE
  /\ pending' = {k \in FieldsOfType(schema, "ZodEnum") : values'[k] # values[k]}
  /\ timers' = timers + 1
  /\ lastEffect' = "reset"
  /\ lastOp' = Op("reset", "", obj, FALSE)
  /\ UNCHANGED <<schema, isLoading, inFlight, onSubmitCount>>

\* The effect, initialValues absent: the flag is cleared at once.
EffectAbsent ==
  /\ lastOp.op # "error"
  /\ pending = {}
  /\ isInitializingRef' = FALSE
  /\ lastEffect' = "absent"
  /\ lastOp' = Op("effect", "", EmptyObject, FALSE)
  /\ UNCHANGED <<schema, isLoading, inFlight, values, timers, pending, errors, isSubmitted, onSubmitCount>>

\* useEffect(..., [initialValues, form, schema])
RunEffect(Objects) ==
  \/ \E obj \in Objects : EffectReset(obj)
  \/ EffectAbsent

\* a deferred callback that runs without clearing the flag
TimerFireKeepingFlag ==
  /\ timers > 0
  /\ timers = 1 => pending = {}
  /\ timers' = timers - 1
  /\ lastOp' = Op("timer", "", EmptyObject, FALSE)
  /\ UNCHANGED <<schema, isLoading, inFlight, values, isInitializingRef, lastEffect, pending,
                 errors, isSubmitted, onSubmitCount>>

\* The oldest deferred flag-clear runs.  The clear a reset scheduled runs
\* after the Selects have reported that reset's change; the clear of an
\* earlier reset is not held back by them.
TimerFire ==
  /\ timers > 0
  /\ timers = 1 => pending = {}
  /\ isInitializingRef' = FALSE
  /\ timers' = timers - 1
  /\ lastOp' = Op("timer", "", EmptyObject, FALSE)
  /\ UNCHANGED <<schema, isLoading, inFlight, values, lastEffect, pending, errors, isSubmitted, onSubmitCount>>

\* field.onChange(v): the value is stored, and after a submit attempt the
\* field is validated again
ErrorsAfterChange(k, v) ==
  IF isSubmitted
    THEN (errors \ {k}) \cup (IF ZodParse(schema.shape[k], v).ok THEN {} ELSE {k})
    ELSE errors

FieldOnChange(k, v) ==
  /\ values' = SetKey(values, k, v)
  /\ errors' = ErrorsAfterChange(k, v)

\* whether onValueChange of the Select passes the value on to field.onChange
SelectPropagates == ~isInitializingRef

\* onValueChange of the Select of field k with value v
SelectOnValueChange(k, v) ==
  IF SelectPropagates
    THEN FieldOnChange(k, v)
    ELSE UNCHANGED <<values, errors>>

\* what a Select may report: one of its options, or the empty string
SelectValues(k) ==
  LET opts == enumValuesOf(unwrapZodType(schema.shape[k]))
  IN {opts[i] : i \in 1..Len(opts)} \cup {EmptyStr}

\* A Select reports the value change the latest reset gave it.
ResetNotification ==
  \E k \in pending : \E v \in SelectValues(k) :
    /\ SelectOnValueChange(k, v)
    /\ pending' = pending \ {k}
    /\ lastOp' = Op("resetChange", k, v, SelectPropagates)
    /\ UNCHANGED <<schema, isLoading, inFlight, isInitializingRef, lastEffect, timers, isSubmitted, onSubmitCount>>

\* The user picks an option of an enum field.
UserSelect ==
  /\ lastEffect # "none"
  /\ \E k \in FieldsOfType(schema, "ZodEnum") : \E v \in SelectValues(k) \ {EmptyStr} :
       /\ SelectOnValueChange(k, v)
       /\ lastOp' = Op("select", k, v, SelectPropagates)
  /\ UNCHANGED <<schema, isLoading, inFlight, isInitializingRef, lastEffect, timers, pending, isSubmitted, onSubmitCount>>

\* The user types into a text field.
EditText(Texts) ==
  /\ lastEffect # "none"
  /\ \E k \in FieldsOfType(schema, "ZodString") : \E text \in Texts :
       /\ FieldOnChange(k, Str(text))
       /\ lastOp' = Op("editText", k, text, TRUE)
  /\ UNCHANGED <<schema, isLoading, inFlight, isInitializingRef, lastEffect, timers, pending, isSubmitted, onSubmitCount>>

\* The user types into a number field.
EditNumber(Texts) ==
  /\ lastEffect # "none"
  /\ \E k \in FieldsOfType(schema, "ZodNumber") : \E text \in Texts :
       /\ FieldOnChange(k, NumberOnChange(text))
       /\ lastOp' = Op("editNumber", k, text, TRUE)
  /\ UNCHANGED <<schema, isLoading, inFlight, isInitializingRef, lastEffect, timers, pending, isSubmitted, onSubmitCount>>

\* The user flips the switch of a boolean field.
Toggle ==
  /\ lastEffect # "none"
  /\ \E k \in FieldsOfType(schema, "ZodBoolean") :
       /\ FieldOnChange(k, SwitchOnCheckedChange(values[k]))
       /\ lastOp' = Op("toggle", k, EmptyObject, TRUE)
  /\ UNCHANGED <<schema, isLoading, inFlight, isInitializingRef, lastEffect, timers, pending, isSubmitted, onSubmitCount>>

\* The user types into the text input of a list field.
EditArray(Texts) ==
  /\ lastEffect # "none"
  /\ \E k \in FieldsOfType(schema, "ZodArray") : \E text \in Texts :
       /\ FieldOnChange(k, ArrayOnChange(text))
       /\ lastOp' = Op("editArray", k, text, TRUE)
  /\ UNCHANGED <<schema, isLoading, inFlight, isInitializingRef, lastEffect, timers, pending, isSubmitted, onSubmitCount>>

\* a submit that hands the values to the handler whatever the resolver says
HandlerInvokedAlways(invalid) == TRUE

\* form.handleSubmit(onSubmit): whether the handler is invoked, given the
\* fields the resolver rejects
HandlerInvoked(invalid) == invalid = {}

\* a submit button that is never disabled
SubmitEnabledAlways == TRUE

\* <Button type="submit" disabled={isLoading}>: whether the form can be
\* submitted (a form whose submit button is disabled is not submitted by the
\* Enter key either)
SubmitEnabled == ~isLoading

\* The user submits the form.  A handler that is invoked is at work until
\* HandlerResolves.
Submit ==
  /\ lastEffect # "none"
  /\ SubmitEnabled
  /\ onSubmitCount < MaxSubmits
  /\ LET invalid == InvalidFields(schema, values)
     IN /\ errors' = invalid
        /\ isSubmitted' = TRUE
        /\ IF HandlerInvoked(invalid)
             THEN /\ onSubmitCount' = onSubmitCount + 1
                  /\ inFlight' = inFlight + 1
                  /\ lastOp' = Op("submit", "", ParsedData(schema, values), TRUE)
             ELSE /\ onSubmitCount' = onSubmitCount
                  /\ inFlight' = inFlight
                  /\ lastOp' = Op("submit", "", EmptyObject, FALSE)
  /\ UNCHANGED <<schema, isLoading, values, isInitializingRef, lastEffect, timers, pending>>

\* The work an invocation of onSubmit started comes to its end.
HandlerResolves ==
  /\ inFlight > 0
  /\ inFlight' = inFlight - 1
  /\ lastOp' = Op("resolved", "", EmptyObject, FALSE)
  /\ UNCHANGED <<schema, isLoading, values, isInitializingRef, lastEffect, timers, pending,
                 errors, isSubmitted, onSubmitCount>>

\* The caller renders the form with another isLoading.
SetLoading ==
  /\ lastEffect # "none"
  /\ isLoading' = ~isLoading
  /\ lastOp' = Op("isLoading", "", EmptyObject, FALSE)
  /\ UNCHANGED <<schema, inFlight, values, isInitializingRef, lastEffect, timers, pending,
                 errors, isSubmitted, onSubmitCount>>

(***************************************************************************)
(* The schemas and inputs the model draws.                                 *)
(***************************************************************************)
\* the strings over an alphabet, up to a length
StringsUpTo(alphabet, n) == UNION {[1..k -> alphabet] : k \in 0..n}

\* the objects whose keys are among keys and whose values are among vals
ObjectsOver(keys, vals) == UNION {[K -> vals] : K \in SUBSET keys}

\* a schema of the given field names (in order) and their types
SchemaOf(names, types) ==
  [keys |-> names,
   shape |-> [k \in {names[i] : i \in 1..Len(names)} |->
                types[CHOOSE i \in 1..Len(names) : names[i] = k]]]

OptionsAB == <<Str(<<"a">>), Str(<<"b">>)>>

\* wrapper layers around a base type
MaxWrap == 2

\* length of the external strings drawn exhaustively
MaxStrLen == 2

\* length of the texts typed into a list field drawn exhaustively
MaxTextLen == 3

BaseTypes ==
  {ZodString, ZodNumber, ZodBoolean, ZodEnum(OptionsAB), ZodEnum(<<>>),
   ZodEnum(<<EmptyStr, Str(<<"a">>)>>), ZodArray, ZodAny}

\* the default a field of the base type declares: none is the type's fallback
DeclaredDefault(baseType) ==
  CASE TypeName(baseType) = "ZodString" -> Str(<<"a">>)
    [] TypeName(baseType) = "ZodNumber" -> Num(4)
    [] TypeName(baseType) = "ZodBoolean" -> Bool(TRUE)
    [] TypeName(baseType) = "ZodEnum" -> Str(<<"b">>)
    [] TypeName(baseType) = "ZodArray" -> Arr(<<Str(<<"a">>)>>)
    [] OTHER -> Str(<<"a">>)

\* the base type under the wrappers named by stack, outermost first
Wrapped(stack, baseType) ==
  [i \in 1..Len(stack) |->
     Layer(stack[i],
           IF stack[i] = "ZodDefault" THEN DeclaredDefault(baseType) ELSE Undefined,
           <<>>, 0)] \o baseType

FieldTypes ==
  {Wrapped(stack, b) : stack \in StringsUpTo(WrapperNames, MaxWrap), b \in BaseTypes}

\* what is no Zod schema, bare or as the innerType of one wrapper
BadTypes ==
  {Wrapped(stack, b) : stack \in StringsUpTo(WrapperNames, 1), b \in {AbsentField, MalformedField}}

\* schemas with a descriptor that is no Zod schema, alone or beside a field
\* that is one
BadSchemas ==
  {SchemaOf(<<"f">>, <<T>>) : T \in BadTypes}
  \cup {SchemaOf(<<"f", "g">>, <<T, U>>) : T \in {ZodString, ZodAny}, U \in BadTypes}
  \cup {SchemaOf(<<"f", "g">>, <<U, T>>) : T \in {ZodString, ZodAny}, U \in BadTypes}

\* one-field schemas of every field type, every two-field schema of base
\* types, the schema without fields, and the schemas with a bad descriptor
ValueSchemas ==
  {SchemaOf(<<"f">>, <<T>>) : T \in FieldTypes}
  \cup {SchemaOf(<<"f", "g">>, <<T, U>>) : T \in BaseTypes, U \in BaseTypes}
  \cup {SchemaOf(<<>>, <<>>)}
  \cup BadSchemas

NamedStrings ==
  {<<"{", "a", ",", "b", ",", "c", "}">>,
   <<"{", " ", "a", " ", ",", " ", "b", " ", "}">>,
   <<"{", "a", ",", ",", "b", "}">>,
   <<"{", "a">>,
   <<"a", "}">>,
   <<"a", "b", "c">>,
   <<"4", "2">>,
   <<" ", "4", "2", " ">>,
   <<"-", "7">>,
   <<"4", "a">>,
   <<"b">>,
   <<"a", ",", "b">>,
   <<"t", "r", "u", "e">>}

ExternalStrings == StringsUpTo({"{", "}", ",", " ", "a"}, MaxStrLen) \cup NamedStrings

ExternalValues ==
  {Undefined, Null, NaN, Bool(TRUE), Bool(FALSE), Num(0), Num(42), Num(-7),
   Arr(<<>>), Arr(<<Str(<<"a">>)>>), Arr(<<Str(<<"a">>), Str(<<"b">>)>>),
   Arr(<<Str(<<"4", "2">>)>>), Arr(<<Num(1), Null>>), Obj(<<>>)}
  \cup {Str(x) : x \in ExternalStrings}

FewValues == {Null, Str(<<"b">>), Num(42)}

\* the initialValues drawn for a schema; "z" is a key of no schema
ExternalObjects(sch) ==
  IF Len(sch.keys) = 1
    THEN ObjectsOver({"f"}, ExternalValues) \cup ObjectsOver({"f", "z"}, FewValues)
    ELSE ObjectsOver({"f", "g", "z"}, FewValues)

\* the schemas of the forms whose life is followed step by step
FormSchemas ==
  {SchemaOf(<<"kind">>, <<ZodEnum(OptionsAB)>>),
   SchemaOf(<<"name", "age">>, <<ZodStringMin(1), ZodDefault(ZodNumber, Num(0))>>),
   SchemaOf(<<"name", "age">>, <<ZodString, ZodDefault(ZodOptional(ZodNumber), Num(0))>>),
   SchemaOf(<<"tags">>, <<ZodNullable(ZodArray)>>),
   SchemaOf(<<"ok", "kind">>, <<ZodBoolean, ZodOptional(ZodEnum(OptionsAB))>>),
   SchemaOf(<<"ok">>, <<ZodDefault(ZodNullable(ZodBoolean), Null)>>)}

FormValues == {Null, Str(<<"b">>)}

FormObjects(sch) == ObjectsOver(DOMAIN sch.shape, FormValues)

\* the texts typed into a list field, a text field and a number field
FormTexts == {<<>>, <<"a">>, <<"4">>, <<"[", "]">>}

NameTexts == {<<>>, <<"A", "l", "i", "c", "e">>}

NumberTexts == {<<>>, <<"4">>}

\* the schemas of the forms whose edit handlers are fed every text
EditSchemas ==
  {SchemaOf(<<"tags">>, <<ZodArray>>),
   SchemaOf(<<"tags">>, <<ZodOptional(ZodNullable(ZodArray))>>),
   SchemaOf(<<"n">>, <<ZodNumber>>),
   SchemaOf(<<"n">>, <<ZodOptional(ZodNumber)>>)}

NamedTexts ==
  {<<"[", "\"", "x", "\"", ",", "\"", "y", "\"", "]">>,
   <<"[", " ", "\"", "x", "\"", " ", ",", " ", "\"", "y", "\"", " ", "]">>,
   <<"[", "\"", "x", "\"", ",", "]">>,
   <<"[", "\"", "x", "\"", " ", "\"", "y", "\"", "]">>,
   <<"[", "[", "]", ",", "[", "1", "]", "]">>,
   <<"{", "}">>,
   <<"[", "{", "}", "]">>,
   <<"0", "1">>,
   <<"[", "0", "1", "]">>,
   <<"-", "1">>,
   <<"[", "-", "1", "]">>,
   <<"n", "u", "l", "l">>,
   <<"[", "n", "u", "l", "l", "]">>,
   <<"t", "r", "u", "e">>,
   <<"[", "t", "r", "u", "e", ",", "f", "a", "l", "s", "e", "]">>,
   <<"\"", "x", "\"">>,
   <<"[", "x", "]">>,
   <<"4", "2">>,
   <<"4", "a">>,
   <<" ", "4", "2">>,
   <<"a", "b", "c">>,
   <<"+", "4">>,
   <<"-">>}

EditTexts == StringsUpTo({"[", "]", "\"", ",", "x", "1", " "}, MaxTextLen) \cup NamedTexts

(***************************************************************************)
(* Specifications.                                                         *)
(*   Spec        the life of a form: effect runs, deferred clears, Select  *)
(*               reports, user edits, submits, the handler's work ending   *)
(*               and the caller's isLoading                                *)
(*   SpecLive    Spec under the scheduling the platform guarantees         *)
(*   SpecValues  default synthesis and normalization over every schema and *)
(*               external value drawn                                      *)
(*   SpecEdit    the edit handlers over every text drawn                   *)
(***************************************************************************)
Init == InitWith(FormSchemas)

Next ==
  \/ RunEffect(FormObjects(schema))
  \/ TimerFire
  \/ ResetNotification
  \/ UserSelect
  \/ EditText(NameTexts)
  \/ EditNumber(NumberTexts)
  \/ Toggle
  \/ EditArray(FormTexts)
  \/ Submit
  \/ HandlerResolves
  \/ SetLoading

Spec == Init /\ [][Next]_vars

\* The effect of the mount runs after the first render.
MountEffect == lastEffect = "none" /\ RunEffect(FormObjects(schema))

\* The life of a form under the scheduling the platform gives it: React runs
\* the effect of the mount, the Selects report the change a reset gave them,
\* and the event loop runs every callback setTimeout(..., 0) scheduled.
SpecLive ==
  /\ Init
  /\ [][Next]_vars
  /\ WF_vars(MountEffect)
  /\ WF_vars(ResetNotification)
  /\ WF_vars(TimerFire)

InitValues == InitWith(ValueSchemas)

\* the first run of the effect only: what it stores depends on the schema
\* and on initialValues alone
NextValues == lastEffect = "none" /\ RunEffect(ExternalObjects(schema))

SpecValues == InitValues /\ [][NextValues]_vars

InitEdit == InitWith(EditSchemas)

\* one edit of the mounted form: what a handler stores depends on the text
\* alone
NextEdit ==
  \/ lastEffect = "none" /\ EffectAbsent
  \/ lastOp.op = "effect" /\ EditArray(EditTexts)
  \/ lastOp.op = "effect" /\ EditNumber(EditTexts)

SpecEdit == InitEdit /\ [][NextEdit]_vars

(***************************************************************************)
(* Properties.                                                             *)
(***************************************************************************)
KeySet(sch) == {sch.keys[i] : i \in 1..Len(sch.keys)}

\* the value initialValues gave field k in the last reset
GivenValue(k) == OwnOrUndefined(lastOp.input, k)

\* how often character c stands in s
RECURSIVE CountOf(_, _)
CountOf(s, c) ==
  IF s = <<>> THEN 0 ELSE (IF Head(s) = c THEN 1 ELSE 0) + CountOf(Tail(s), c)

\* s without its white space
RECURSIVE WithoutSpaces(_)
WithoutSpaces(s) ==
  IF s = <<>> THEN <<>>
  ELSE IF IsSpace(Head(s)) THEN WithoutSpaces(Tail(s))
  ELSE <<Head(s)>> \o WithoutSpaces(Tail(s))

\* the strings of a sequence of string values, with a "," between them
RECURSIVE CommaJoined(_)
CommaJoined(a) ==
  IF a = <<>> THEN <<>>
  ELSE IF Len(a) = 1 THEN Head(a).v
  ELSE Head(a).v \o <<",">> \o CommaJoined(Tail(a))

\* C1: the default value set computed at construction has exactly the field
\* names of the schema as its keys: an entry for every field, none for a
\* name that is not a field.
C1_DefaultKeysAreSchemaKeys ==
  lastOp.op = "render" => DOMAIN values = KeySet(schema)

C1_Witness ==
  /\ lastOp.op = "render"
  /\ Len(schema.keys) = 2
  /\ \E k \in DOMAIN values : values[k] = Undefined

\* whether the field type declares a default, under whatever wrappers
HasDeclaredDefault(fieldSchema) ==
  \E i \in 1..Len(fieldSchema) : fieldSchema[i].typeName = "ZodDefault"

\* the default it declares (of the outermost ZodDefault layer)
DeclaredDefaultOf(fieldSchema) ==
  LET i == CHOOSE i \in 1..Len(fieldSchema) :
             /\ fieldSchema[i].typeName = "ZodDefault"
             /\ \A j \in 1..(i - 1) : fieldSchema[j].typeName # "ZodDefault"
  IN fieldSchema[i].defaultValue

\* C2: every field that declares an explicit default, in any nesting order of
\* the optional, nullable and default wrappers, gets the declared default as
\* its synthesized default value.
C2_DeclaredDefaultIsUsed ==
  lastOp.op = "render" =>
    \A k \in DOMAIN schema.shape :
      HasDeclaredDefault(schema.shape[k]) => values[k] = DeclaredDefaultOf(schema.shape[k])

\* C3: on a submit attempt the submit handler is invoked only if every field
\* of the current value set is valid against the schema; if a field is
\* invalid the handler is not invoked, the invalid fields (and only they)
\* get a message, and the value set is left unchanged.
C3_SubmitIsGatedByValidation ==
  [][lastOp'.op = "submit" =>
       LET allValid == \A k \in DOMAIN schema.shape : ZodParse(schema.shape[k], values[k]).ok
       IN /\ onSubmitCount' # onSubmitCount => allValid
          /\ lastOp'.propagated => allValid
          /\ ~allValid =>
               /\ onSubmitCount' = onSubmitCount
               /\ ~lastOp'.propagated
               /\ errors' # {}
               /\ \A k \in errors' : ~ZodParse(schema.shape[k], values[k]).ok
               /\ values' = values]_vars

C3_Witness ==
  /\ lastOp.op = "submit"
  /\ ~lastOp.propagated
  /\ onSubmitCount = 0
  /\ errors # {}

\* C4: the change notifications a bulk reset causes never reach the user-edit
\* change handler (field.onChange), while a selection the user makes outside
\* the suppression window does.
C4_ResetChangesAreNotPropagated ==
  /\ lastOp.op = "resetChange" => ~lastOp.propagated
  /\ (lastOp.op = "select" /\ ~isInitializingRef) =>
       lastOp.propagated /\ values[lastOp.field] = lastOp.input

\* C5: while the deferred clear scheduled by the latest bulk reset has not
\* run, the suppression flag stays set: a pending clear of an earlier reset
\* does not end the later reset's suppression window.
C5_LatestResetKeepsSuppression ==
  (lastEffect = "reset" /\ timers > 0) => isInitializingRef

\* C6: normalization of a list field gives a sequence for every external
\* value: a sequence unchanged, null and undefined the empty sequence, a
\* string in braces its comma-separated trimmed elements ("{}" none), every
\* other shape the empty sequence.
C6_ListNormalization ==
  lastOp.op = "reset" =>
    \A k \in FieldsOfType(schema, "ZodArray") :
      LET v == GivenValue(k)
          r == values[k]
          braced == v.t = "string" /\ Len(v.v) >= 2 /\ v.v[1] = "{" /\ v.v[Len(v.v)] = "}"
          inner == SubSeq(v.v, 2, Len(v.v) - 1)
      IN /\ IsArray(r)
         /\ IsArray(v) => r = v
         /\ IsNullish(v) => r = Arr(<<>>)
         /\ (~IsArray(v) /\ ~braced) => r = Arr(<<>>)
         /\ (braced /\ WithoutSpaces(inner) = <<>>) => r = Arr(<<>>)
         /\ (braced /\ WithoutSpaces(inner) # <<>>) =>
              /\ Len(r.v) = CountOf(inner, ",") + 1
              /\ \A i \in 1..Len(r.v) :
                   /\ r.v[i].t = "string"
                   /\ CountOf(r.v[i].v, ",") = 0
                   /\ r.v[i].v # <<>> => ~IsSpace(Head(r.v[i].v)) /\ ~IsSpace(r.v[i].v[Len(r.v[i].v)])
              /\ WithoutSpaces(CommaJoined(r.v)) = WithoutSpaces(inner)
         /\ v = Str(<<"{", "a", ",", "b", ",", "c", "}">>) =>
              r = Arr(<<Str(<<"a">>), Str(<<"b">>), Str(<<"c">>)>>)
         /\ v = Str(<<"{", " ", "a", " ", ",", " ", "b", " ", "}">>) => r = Arr(<<Str(<<"a">>), Str(<<"b">>)>>)

C6_Witness ==
  /\ lastOp.op = "reset"
  /\ \E k \in FieldsOfType(schema, "ZodArray") :
       /\ GivenValue(k) = Str(<<"{", "a", ",", "b", ",", "c", "}">>)
       /\ values[k] = Arr(<<Str(<<"a">>), Str(<<"b">>), Str(<<"c">>)>>)

\* C7: normalizing an empty external value source gives every field the
\* type-based fallback of its unwrapped base type, as default synthesis does
\* with the explicit-default rule left out; declared defaults are not applied.
C7_EmptySourceGivesTypeFallbacks ==
  (lastOp.op = "reset" /\ DOMAIN lastOp.input = {}) =>
    \A k \in DOMAIN schema.shape : values[k] = TypeFallback(unwrapZodType(schema.shape[k]))

C7_Witness ==
  /\ lastOp.op = "reset"
  /\ DOMAIN lastOp.input = {}
  /\ \E k \in DOMAIN schema.shape :
       /\ TypeName(schema.shape[k]) = "ZodDefault"
       /\ values[k] # Head(schema.shape[k]).defaultValue

\* C8: normalization of an enum field gives a declared option when there is
\* one: a value that is null, undefined or no declared option becomes the
\* first option ("" when the enum declares none), a declared option is kept.
C8_EnumNormalization ==
  lastOp.op = "reset" =>
    \A k \in FieldsOfType(schema, "ZodEnum") :
      LET opts == unwrapZodType(schema.shape[k])[1].values
          declared == {opts[i] : i \in 1..Len(opts)}
          v == GivenValue(k)
          r == values[k]
      IN /\ opts # <<>> => r \in declared
         /\ v \in declared => r = v
         /\ v \notin declared => r = (IF opts = <<>> THEN EmptyStr ELSE opts[1])

C8_Witness ==
  /\ lastOp.op = "reset"
  /\ \E k \in FieldsOfType(schema, "ZodEnum") :
       /\ GivenValue(k) = Str(<<"a", "b", "c">>)
       /\ values[k] = Str(<<"a">>)

\* whether every character of s is a digit, a space or a sign
NumberCharsOnly(s) ==
  \A i \in 1..Len(s) : IsDigit(s[i]) \/ IsSpace(s[i]) \/ s[i] = "-" \/ s[i] = "+"

\* C9: normalization of an integer field never gives not-a-number: a value
\* whose numeric coercion is not a number ("abc", undefined) becomes 0, a
\* numeric string such as "42" becomes the number 42.
C9_IntegerNormalization ==
  lastOp.op = "reset" =>
    \A k \in FieldsOfType(schema, "ZodNumber") :
      LET v == GivenValue(k)
          r == values[k]
      IN /\ r.t = "number"
         /\ v \in {Undefined, NaN, Str(<<"a", "b", "c">>)} => r = Num(0)
         /\ (v.t = "string" /\ ~NumberCharsOnly(v.v)) => r = Num(0)
         /\ (v.t = "string" /\ AllDigits(v.v) /\ Head(v.v) # "0") => IntToStr(r.v) = v.v
         /\ v = Str(<<"4", "2">>) => r = Num(42)

C9_Witness ==
  /\ lastOp.op = "reset"
  /\ \E k \in FieldsOfType(schema, "ZodNumber") :
       /\ GivenValue(k) = Str(<<"a", "b", "c">>)
       /\ values[k] = Num(0)

\* s without the white space outside its double-quoted parts
RECURSIVE Compact(_, _)
Compact(s, quoted) ==
  IF s = <<>> THEN <<>>
  ELSE IF Head(s) = "\"" THEN <<Head(s)>> \o Compact(Tail(s), ~quoted)
  ELSE IF IsSpace(Head(s)) /\ ~quoted THEN Compact(Tail(s), quoted)
  ELSE <<Head(s)>> \o Compact(Tail(s), quoted)

\* a few arrays, each stored when its JSON text is typed
SampleArrays ==
  {Arr(<<>>), Arr(<<Num(1)>>), Arr(<<Str(<<"x">>)>>), Arr(<<Str(<<>>)>>),
   Arr(<<Num(1), Num(1)>>), Arr(<<Arr(<<>>)>>), Arr(<<Str(<<"x">>), Str(<<"y">>)>>),
   Arr(<<Null>>), Arr(<<Bool(TRUE), Bool(FALSE)>>), Arr(<<Num(-1)>>)}

Perms(n) == {p \in [1..n -> 1..n] : \A i, j \in 1..n : p[i] = p[j] => i = j}

\* the layers before the first layer of fieldSchema that is no optional,
\* nullable, default or effects wrapper
LeadingWrappers(fieldSchema) ==
  LET isWrapper(i) ==
        fieldSchema[i].typeName \in {"ZodOptional", "ZodNullable", "ZodDefault", "ZodEffects"}
  IN (CHOOSE i \in 1..Len(fieldSchema) :
        ~isWrapper(i) /\ \A j \in 1..(i - 1) : isWrapper(j)) - 1

\* fieldSchema with its first n layers in the order p
Reordered(fieldSchema, n, p) ==
  [i \in 1..Len(fieldSchema) |-> IF i <= n THEN fieldSchema[p[i]] ELSE fieldSchema[i]]

\* C11: unwrapping a field type strips every optional, nullable, default and
\* effects wrapper down to the first type that is none of them; unwrapping
\* the result again changes nothing, and the result is the same for every
\* nesting order of the same wrappers around the same base.
C11_UnwrapStripsAllWrappers ==
  lastOp.op # "error" =>
    \A k \in DOMAIN schema.shape :
      LET fieldSchema == schema.shape[k]
          n == LeadingWrappers(fieldSchema)
          base == unwrapZodType(fieldSchema)
      IN /\ base = SubSeq(fieldSchema, n + 1, Len(fieldSchema))
         /\ TypeName(base) \notin {"ZodOptional", "ZodNullable", "ZodDefault", "ZodEffects"}
         /\ unwrapZodType(base) = base
         /\ \A p \in Perms(n) : unwrapZodType(Reordered(fieldSchema, n, p)) = base

C11_Witness ==
  /\ lastOp.op = "render"
  /\ \E k \in DOMAIN schema.shape :
       /\ Len(schema.shape[k]) = 3
       /\ schema.shape[k][1].typeName = "ZodEffects"
       /\ schema.shape[k][2].typeName = "ZodDefault"
       /\ TypeName(unwrapZodType(schema.shape[k])) = "ZodEnum"

\* the innermost layer of the field type of k
InnermostName(k) == schema.shape[k][Len(schema.shape[k])].typeName

\* the fields of the schema whose descriptor, bare or under wrappers, is no
\* Zod schema
BadFields == {k \in DOMAIN schema.shape : InnermostName(k) \in {"(undefined)", "(invalid _def)"}}

\* the fields whose descriptor is a Zod schema of a type that is none of the
\* five the form knows
UnrecognizedFields ==
  {k \in DOMAIN schema.shape \ BadFields :
     InnermostName(k) \notin {"ZodString", "ZodNumber", "ZodBoolean", "ZodEnum", "ZodArray"}}

\* C12 as stated: construction fails whenever a field descriptor is absent,
\* malformed, or does not unwrap to one of the five recognized types.
C12_UnrecognizedTypeFails ==
  (BadFields # {} \/ UnrecognizedFields # {}) => lastOp.op = "error"

\* C12: construction fails, leaving no value set and no form, exactly when a
\* field descriptor is absent or malformed; a descriptor that unwraps to a
\* well-formed type outside the five recognized ones does not fail: the form
\* is built, and the field gets undefined unless it declares a default.
C12_BadDescriptorFails ==
  /\ lastOp.op = "error" <=> BadFields # {}
  /\ lastOp.op = "error" => values = EmptyObject /\ lastEffect = "none"
  /\ (lastOp.op # "error" /\ lastEffect = "none") =>
       /\ DOMAIN values = DOMAIN schema.shape
       /\ \A k \in UnrecognizedFields :
            schema.shape[k][1].typeName # "ZodDefault" => values[k] = Undefined

C12_Witness ==
  /\ lastOp.op = "error"
  /\ schema.keys = <<"f", "g">>
  /\ schema.shape["f"] = ZodString
  /\ schema.shape["g"][1].typeName = "ZodOptional"

\* C13: the normalized value set has exactly the schema's field names as its
\* keys, whatever keys the external values have: a key of the external
\* values that is no field never appears in it, and a field the external
\* values lack is normalized as the value undefined is.
C13_NormalizedKeysAreSchemaKeys ==
  lastOp.op = "reset" =>
    /\ DOMAIN values = KeySet(schema)
    /\ \A k \in DOMAIN lastOp.input : k \notin KeySet(schema) => k \notin DOMAIN values
    /\ \A k \in KeySet(schema) :
         k \notin DOMAIN lastOp.input => values[k] = NormalizeValue(schema.shape[k], Undefined)

C13_Witness ==
  /\ lastOp.op = "reset"
  /\ schema.keys = <<"f", "g">>
  /\ DOMAIN lastOp.input = {"g", "z"}
  /\ DOMAIN values = {"f", "g"}

\* C14 as stated: while the work of a submit handler is unfinished the submit
\* control is disabled, so that no second submission is in flight beside it.
C14_DisabledWhileInFlight ==
  /\ inFlight > 0 => ~SubmitEnabled
  /\ inFlight <= 1

\* C14: the submit control is disabled exactly while the caller passes
\* isLoading: no submit attempt is made and no handler is invoked while it is
\* true, whether or not a handler is at work, and a submission that starts
\* leaves isLoading as the caller set it.
C14_SubmitDisabledWhileLoading ==
  [][/\ lastOp'.op = "submit" => ~isLoading /\ isLoading' = isLoading
     /\ onSubmitCount' # onSubmitCount => ~isLoading
     /\ inFlight' > inFlight => ~isLoading /\ ~isLoading']_vars

C14_Witness ==
  /\ isLoading
  /\ inFlight = 1
  /\ onSubmitCount = 1
  /\ lastOp.op = "isLoading"

Alice == Str(<<"A", "l", "i", "c", "e">>)

\* whether the schema is that of the scenario: a required text field name and
\* an integer field age that declares the default 0
NameAgeSchema ==
  /\ schema.keys = <<"name", "age">>
  /\ schema.shape["name"][1].typeName = "ZodString"
  /\ schema.shape["age"][1].typeName = "ZodDefault"
  /\ schema.shape["age"][1].defaultValue = Num(0)

\* C15 as stated: with name "Alice" and age left at its default the submit
\* succeeds and the handler gets exactly {name: "Alice", age: 0}; with name
\* "" the submit fails with a message for name and the handler is not called.
C15_EmptyNameFails ==
  (NameAgeSchema /\ lastOp.op = "submit") =>
    /\ (values["name"] = Alice /\ values["age"] = Num(0)) =>
         lastOp.propagated /\ lastOp.input = [name |-> Alice, age |-> Num(0)]
    /\ values["name"] = EmptyStr => ~lastOp.propagated /\ "name" \in errors

\* C15: with name "Alice" and age left at its default, or emptied, the submit
\* succeeds and the handler gets exactly {name: "Alice", age: 0}.  With name
\* "" the submit fails with a message for name, the handler not called, only
\* when the text field declares a minimum length; a text field that is
\* merely required accepts "" and the handler is called with it.
C15_NameAgeSubmission ==
  [][(NameAgeSchema /\ lastOp'.op = "submit") =>
       /\ (values["name"] = Alice /\ values["age"] \in {Num(0), Undefined}) =>
            /\ lastOp'.propagated
            /\ lastOp'.input = [name |-> Alice, age |-> Num(0)]
            /\ onSubmitCount' = onSubmitCount + 1
            /\ errors' = {}
       /\ (values["name"] = EmptyStr /\ schema.shape["name"][1].min >= 1) =>
            /\ ~lastOp'.propagated
            /\ "name" \in errors'
            /\ onSubmitCount' = onSubmitCount
       /\ (values["name"] = EmptyStr /\ schema.shape["name"][1].min = 0) =>
            /\ "name" \notin errors'
            /\ values["age"] \in {Num(0), Undefined} =>
                 /\ lastOp'.propagated
                 /\ lastOp'.input = [name |-> EmptyStr, age |-> Num(0)]
                 /\ onSubmitCount' = onSubmitCount + 1]_vars

C15_Witness ==
  /\ NameAgeSchema
  /\ schema.shape["name"][1].min >= 1
  /\ lastEffect = "absent"
  /\ lastOp.op = "submit"
  /\ lastOp.propagated
  /\ lastOp.input = [name |-> Alice, age |-> Num(0)]
  /\ values["age"] = Num(0)

\* whether text begins, after white space and an optional sign, with a digit
HasLeadingInteger(text) ==
  \E i \in 1..Len(text) :
    /\ \A j \in 1..(i - 1) : IsSpace(text[j])
    /\ \/ IsDigit(text[i])
       \/ text[i] \in {"+", "-"} /\ i < Len(text) /\ IsDigit(text[i + 1])

\* C16: typing into an integer field stores an integer or undefined, never
\* not-a-number: text that begins with an integer stores that integer, text
\* that does not stores undefined and not 0, while normalization turns the
\* same text, given as an external value, into 0.
C16_IntegerEdit ==
  lastOp.op = "editNumber" =>
    LET text == lastOp.input
        r == values[lastOp.field]
    IN /\ r = Undefined \/ r.t = "number"
       /\ HasLeadingInteger(text) <=> r.t = "number"
       /\ ~HasLeadingInteger(text) =>
            /\ r = Undefined
            /\ NormalizeNumber(Str(text)) = Num(0)
       /\ (AllDigits(text) /\ text # <<>> /\ Head(text) # "0") => IntToStr(r.v) = text
       /\ text = <<"4", "2">> => r = Num(42)
       /\ text = <<"4", "a">> => r = Num(4)
       /\ text = <<"-", "1">> => r = Num(-1)
       /\ text \in {<<>>, <<"a", "b", "c">>, <<"-">>, <<" ">>, <<"x", "1">>} => r = Undefined

C16_Witness ==
  /\ lastOp.op = "editNumber"
  /\ lastOp.input = <<"a", "b", "c">>
  /\ values[lastOp.field] = Undefined
  /\ NormalizeNumber(Str(lastOp.input)) = Num(0)

\* the Boolean fields of the schema
BooleanFields == {k \in DOMAIN schema.shape : InnermostName(k) = "ZodBoolean"}

\* C17 as stated: in every state of the form the stored value of every
\* Boolean field is true or false.
C17_BooleanAlwaysConcrete ==
  \A k \in BooleanFields : values[k] \in {Bool(TRUE), Bool(FALSE)}

\* C17: the stored value of a Boolean field is true or false after every
\* bulk reset and after every toggle, and from default synthesis on unless
\* the field type itself declares a default: that default is stored as
\* declared (null for a nullable Boolean that declares null) until the first
\* reset or toggle.
C17_BooleanConcreteButDeclaredDefault ==
  \A k \in BooleanFields :
    /\ \/ values[k] \in {Bool(TRUE), Bool(FALSE)}
       \/ /\ schema.shape[k][1].typeName = "ZodDefault"
          /\ values[k] = schema.shape[k][1].defaultValue
    /\ lastOp.op = "reset" => values[k] = Bool(GivenValue(k) \notin {Undefined, Null, EmptyStr})
    /\ (lastOp.op = "toggle" /\ lastOp.field = k) => values[k] \in {Bool(TRUE), Bool(FALSE)}

C17_Witness ==
  /\ lastOp.op = "toggle"
  /\ \E k \in BooleanFields :
       /\ lastOp.field = k
       /\ schema.shape[k][1].defaultValue = Null
       /\ values[k] = Bool(TRUE)
       /\ lastEffect = "absent"

\* C18: suppression always ends: whenever the flag is set, at the mount or
\* by a bulk reset, it is cleared later, and a selection the user makes
\* while it is clear is passed on to the field.
C18_SuppressionEnds ==
  /\ isInitializingRef ~> ~isInitializingRef
  /\ [][(lastOp'.op = "select" /\ ~isInitializingRef) =>
          /\ lastOp'.propagated
          /\ values'[lastOp'.field] = lastOp'.input]_vars

C18_Witness ==
  /\ lastEffect = "reset"
  /\ timers = 0
  /\ ~isInitializingRef
  /\ lastOp.op = "select"
  /\ lastOp.propagated
  /\ values[lastOp.field] = lastOp.input

\* C19: normalization is idempotent: normalizing, against the same schema,
\* the value set that normalization gave from any external values gives that
\* value set again, for fields of every base type.
C19_NormalizationIsIdempotent ==
  lastOp.op = "reset" =>
    /\ processedInitialValues(schema, values) = values
    /\ \A k \in DOMAIN schema.shape : NormalizeValue(schema.shape[k], values[k]) = values[k]

C19_Witness ==
  /\ lastOp.op = "reset"
  /\ \E k \in FieldsOfType(schema, "ZodArray") :
       /\ GivenValue(k) = Str(<<"{", " ", "a", " ", ",", " ", "b", " ", "}">>)
       /\ values[k] = Arr(<<Str(<<"a">>), Str(<<"b">>)>>)
  /\ processedInitialValues(schema, values) = values

====
